---- MODULE Spec2Model ----
(***************************************************************************)
(* TransactionMonitor (src/transaction-monitoring.py): the validator, the  *)
(* per-day aggregation over the transactions table, the action-item rules  *)
(* and the daily report.                                                   *)
(*                                                                         *)
(* Numbers.  processing_time and avg_response_time are kept in tenths of a *)
(* second (4.0 s is 40), so the comparisons with 4.0 and 4 are exact.      *)
(* Quotients (AVG, the error rate) are kept as exact fractions             *)
(* [num, den] and compared by cross-multiplication.                        *)
(***************************************************************************)
EXTENDS Integers, Sequences, FiniteSets, TLC

VARIABLES
    store,      \* the rows of the transactions table, in insertion order
    out         \* the last call made on the monitor: [op, args, result]

vars == <<store, out>>

(***************************************************************************)
(* Python values, as far as validate_transaction looks at them.            *)
(***************************************************************************)
None == [kind |-> "None"]
NaN == [kind |-> "nan"]
Num(n) == [kind |-> "num", n |-> n]
Str(s) == [kind |-> "str", s |-> s]

\* Tenths of a second in the threshold 4.0 of line 80 / line 93 / line 130.
SLA_TENTHS == 40

\* The error-rate threshold of line 133 (per cent).
ERROR_RATE_SLA == 1

\* pd.isna(x) on a scalar: None and NaN are missing, anything else is not.
pd_isna(x) == x.kind \in {"None", "nan"}

Digit(d) == <<"0", "1", "2", "3", "4", "5", "6", "7", "8", "9">>[d + 1]

RECURSIVE digits(_)
digits(n) ==
    IF n < 10 THEN <<Digit(n)>> ELSE digits(n \div 10) \o <<Digit(n % 10)>>

\* str(x): the text Python prints for the value, as a sequence of
\* characters (a number is a Python int here).
py_str(x) ==
    CASE x.kind = "None" -> <<"N", "o", "n", "e">>
      [] x.kind = "nan" -> <<"n", "a", "n">>
      [] x.kind = "str" -> x.s
      [] x.kind = "num" ->
            IF x.n < 0 THEN <<"-">> \o digits(-x.n) ELSE digits(x.n)

\* x <= c and x > c for a number c, as Python 3 orders values: a comparison
\* with NaN is False, a comparison of None or a str with a number raises
\* TypeError.
\* The outcome is "True", "False" or "TypeError".
py_le(x, c) ==
    CASE x.kind = "num" -> (IF x.n <= c THEN "True" ELSE "False")
      [] x.kind = "nan" -> "False"
      [] OTHER -> "TypeError"

py_gt(x, c) ==
    CASE x.kind = "num" -> (IF x.n > c THEN "True" ELSE "False")
      [] x.kind = "nan" -> "False"
      [] OTHER -> "TypeError"

required_fields == <<"merchant_id", "amount", "currency", "card_type">>

MISSING(field) ==
    CASE field = "merchant_id" -> "MISSING_MERCHANT_ID"
      [] field = "amount" -> "MISSING_AMOUNT"
      [] field = "currency" -> "MISSING_CURRENCY"
      [] field = "card_type" -> "MISSING_CARD_TYPE"

Raised(exc) == [raised |-> TRUE, exc |-> exc]
Returned(codes) ==
    [raised |-> FALSE, is_valid |-> Len(codes) = 0, error_codes |-> codes]

RECURSIVE missing_codes(_, _)
missing_codes(transaction, i) ==
    IF i > Len(required_fields) THEN <<>>
    ELSE (IF pd_isna(transaction[required_fields[i]])
            THEN <<MISSING(required_fields[i])>> ELSE <<>>)
         \o missing_codes(transaction, i + 1)

\* validate_transaction, statement by statement; an exception raised by a
\* comparison ends the call.
validate_transaction(transaction) ==
    LET c1 == missing_codes(transaction, 1)
        le == py_le(transaction["amount"], 0)
        c2 == IF le = "True" THEN Append(c1, "INVALID_AMOUNT") ELSE c1
        c3 == IF Len(py_str(transaction["currency"])) # 3
                THEN Append(c2, "INVALID_CURRENCY") ELSE c2
        gt == py_gt(transaction["processing_time"], SLA_TENTHS)
        c4 == IF gt = "True" THEN Append(c3, "SLA_BREACH") ELSE c3
    IN  IF le = "TypeError" THEN Raised("TypeError")
        ELSE IF gt = "TypeError" THEN Raised("TypeError")
        ELSE Returned(c4)

(***************************************************************************)
(* The transactions table (lines 23-36) and the aggregation query.         *)
(* A row carries the columns the query reads.  timestamp is a datetime     *)
(* [day, tod] (calendar day number, time of day) or NULL, which also       *)
(* stands for a text DATE() cannot read; processing_time is a number of    *)
(* tenths of a second; error_code is NULL or a text.  transaction_id, the  *)
(* primary key, is fresh in every loaded row and is not read by the query. *)
(***************************************************************************)
NULL == [sql |-> "NULL"]
DateTime(day, tod) == [sql |-> "datetime", day |-> day, tod |-> tod]
Text(s) == [sql |-> "text", s |-> s]

\* SQLite DATE(timestamp): the calendar date of a datetime, NULL for NULL.
DATE(timestamp) ==
    IF timestamp = NULL THEN NULL ELSE [sql |-> "date", day |-> timestamp.day]

\* BETWEEN with the upper end left out.
BETWEEN_exclusive_end(d, start_date, end_date) ==
    IF d = NULL THEN FALSE ELSE start_date <= d.day /\ d.day < end_date

\* DATE(timestamp) BETWEEN '{start_date}' AND '{end_date}': both ends
\* included; NULL is not between anything.
BETWEEN(d, start_date, end_date) ==
    IF d = NULL THEN FALSE ELSE start_date <= d.day /\ d.day <= end_date

\* WHERE: the rows the query keeps.
Where(rows, start_date, end_date) ==
    SelectSeq(rows, LAMBDA r : BETWEEN(DATE(r.timestamp), start_date, end_date))

\* GROUP BY DATE(timestamp): the distinct dates of the kept rows.
GroupBy(rows) == {DATE(rows[i].timestamp).day : i \in DOMAIN rows}

\* ORDER BY DATE(timestamp): the group keys in ascending order.
RECURSIVE OrderBy(_)
OrderBy(keys) ==
    IF keys = {} THEN <<>>
    ELSE LET m == CHOOSE k \in keys : \A j \in keys : k <= j
         IN  <<m>> \o OrderBy(keys \ {m})

\* SUM over the values an expression takes on the rows of a group.
RECURSIVE SUM(_)
SUM(values) ==
    IF values = <<>> THEN 0 ELSE Head(values) + SUM(Tail(values))

\* The CASE yielding a percentage that the SELECT multiplies by 100 again.
CaseError_percent(r) == IF r.error_code # NULL THEN 100 ELSE 0

\* CASE WHEN error_code IS NOT NULL THEN 1 ELSE 0 END
CaseError(r) == IF r.error_code # NULL THEN 1 ELSE 0

\* The breach test with >= 4.0, and with a threshold of 5.0.
CaseBreach_ge(r) == IF r.processing_time >= SLA_TENTHS THEN 1 ELSE 0

CaseBreach_five_seconds(r) == IF r.processing_time > 50 THEN 1 ELSE 0

\* CASE WHEN processing_time > 4.0 THEN 1 ELSE 0 END
CaseBreach(r) == IF r.processing_time > SLA_TENTHS THEN 1 ELSE 0

\* The SELECT list over one group.
Aggregate(d, group) ==
    [date |-> d,
     total_transactions |-> Len(group),
     avg_response_time |->
        [num |-> SUM([i \in DOMAIN group |-> group[i].processing_time]),
         den |-> Len(group)],
     error_rate |->
        [num |-> SUM([i \in DOMAIN group |-> CaseError(group[i])]) * 100,
         den |-> Len(group)],
     sla_breaches |-> SUM([i \in DOMAIN group |-> CaseBreach(group[i])])]

\* analyze_performance: the result frame, one entry per group, in order.
analyze_performance(rows, start_date, end_date) ==
    LET kept == Where(rows, start_date, end_date)
        keys == OrderBy(GroupBy(kept))
    IN  [i \in DOMAIN keys |->
            Aggregate(keys[i],
                      SelectSeq(kept, LAMBDA r : DATE(r.timestamp).day = keys[i]))]

(***************************************************************************)
(* Action items and the daily report.                                      *)
(***************************************************************************)
\* The comparison with >= in place of >.
FracGe(q, c) == q.num >= c * q.den

\* q > c for a fraction q with a positive denominator.
FracGt(q, c) == q.num > c * q.den

URGENT == [item |-> "URGENT: Investigate high response times - SLA breach detected"]
ANALYZE == [item |-> "Analyze error patterns and implement corrective measures"]
REVIEW(n) ==
    [item |-> "Review {n} transactions exceeding response time SLA", n |-> n]
NO_ACTIONS == [item |-> "No immediate actions required"]

\* generate_action_items: the lines of the text it returns ("\n".join).
generate_action_items(metrics) ==
    LET a1 == IF FracGt(metrics.avg_response_time, SLA_TENTHS)
                THEN <<URGENT>> ELSE <<>>
        a2 == IF FracGt(metrics.error_rate, ERROR_RATE_SLA)
                THEN Append(a1, ANALYZE) ELSE a1
        a3 == IF metrics.sla_breaches > 0
                THEN Append(a2, REVIEW(metrics.sla_breaches)) ELSE a2
    IN  IF a3 # <<>> THEN a3 ELSE <<NO_ACTIONS>>

\* The division a \div b rounded to the nearest integer, ties to even.
RoundDiv(a, b) ==
    LET q == a \div b
        r == a % b
    IN  IF 2 * r < b THEN q
        ELSE IF 2 * r > b THEN q + 1
        ELSE IF q % 2 = 0 THEN q ELSE q + 1

\* f"{x:.2f}" of the fraction q / unit: the integer part and two decimals.
\* A tie is rounded to even; the binary rounding of the double can move an
\* exact tie either way, the digits are otherwise those Python prints.
Format2f(q, unit) ==
    LET h == RoundDiv(100 * q.num, q.den * unit)
    IN  [int |-> h \div 100, frac |-> h % 100]

NO_DATA == "No data available for specified date"

\* The report without the metrics.empty test of line 104: a date without
\* rows is rendered as a report of zero transactions.
generate_daily_report_zero_row(rows, date) ==
    LET metrics == analyze_performance(rows, date, date)
        m == IF metrics = <<>>
               THEN [date |-> date, total_transactions |-> 0,
                     avg_response_time |-> [num |-> 0, den |-> 1],
                     error_rate |-> [num |-> 0, den |-> 1],
                     sla_breaches |-> 0]
               ELSE metrics[1]
    IN  [text |-> "Data Integrity Daily Report",
         date |-> date,
         total_transactions |-> m.total_transactions,
         avg_response_time |-> Format2f(m.avg_response_time, 10),
         error_rate |-> Format2f(m.error_rate, 1),
         sla_breaches |-> m.sla_breaches,
         response_time_sla |->
             IF ~FracGt(m.avg_response_time, SLA_TENTHS)
                 THEN "Met" ELSE "Not Met",
         error_rate_sla |->
             IF ~FracGt(m.error_rate, ERROR_RATE_SLA)
                 THEN "Met" ELSE "Not Met",
         action_items |-> generate_action_items(m)]

\* generate_daily_report: the message, or the fields the template renders.
generate_daily_report(rows, date) ==
    LET metrics == analyze_performance(rows, date, date)
    IN  IF metrics = <<>> THEN [text |-> NO_DATA]
        ELSE LET m == metrics[1]
             IN  [text |-> "Data Integrity Daily Report",
                  date |-> date,
                  total_transactions |-> m.total_transactions,
                  avg_response_time |-> Format2f(m.avg_response_time, 10),
                  error_rate |-> Format2f(m.error_rate, 1),
                  sla_breaches |-> m.sla_breaches,
                  response_time_sla |->
                      IF ~FracGt(m.avg_response_time, SLA_TENTHS)
                          THEN "Met" ELSE "Not Met",
                  error_rate_sla |->
                      IF ~FracGt(m.error_rate, ERROR_RATE_SLA)
                          THEN "Met" ELSE "Not Met",
                  action_items |-> generate_action_items(m)]

(***************************************************************************)
(* Inputs.                                                                 *)
(***************************************************************************)
\* The most rows the table holds in a checked run.
MaxStore == 2

\* Calendar days the loaded rows fall on, and the days a caller asks about.
Days == {1, 2}
QueryDays == {0, 1, 2, 3}

\* Times of day, in seconds: 00:00:00 and 23:59:59.
Tods == {0, 86399}

Timestamps == {NULL} \cup {DateTime(d, t) : d \in Days, t \in Tods}

\* Tenths of a second: 1.0 s, exactly 4.0 s, 4.1 s.
ProcessingTimes == {10, 40, 41}

ErrorCodes == {NULL, Text("E51")}

Rows ==
    [timestamp : Timestamps, processing_time : ProcessingTimes,
     error_code : ErrorCodes]

\* The records handed to validate_transaction.
Transactions ==
    [merchant_id : {None, NaN, Str(<<"M", "1">>)},
     amount : {None, NaN, Num(-5), Num(0), Num(10), Str(<<"a", "b", "c">>)},
     currency : {None, NaN, Str(<<"U", "S">>), Str(<<"U", "S", "D">>), Num(840)},
     card_type : {None, Str(<<"c", "r", "e", "d", "i", "t">>)},
     processing_time : {Num(10), Num(40), Num(41), Num(52), NaN}]

\* One-day metrics handed to generate_action_items on their own.
MetricsValues ==
    [avg_response_time :
        {[num |-> 18, den |-> 1], [num |-> 40, den |-> 1], [num |-> 81, den |-> 2]},
     error_rate :
        {[num |-> 0, den |-> 1], [num |-> 100, den |-> 100],
         [num |-> 200, den |-> 100], [num |-> 100, den |-> 3]},
     sla_breaches : {0, 1, 3}]

(***************************************************************************)
(* The monitor as a state machine.                                         *)
(***************************************************************************)
Init ==
    /\ store = <<>>
    /\ out = [op |-> "__init__"]

\* load_sample_data: the rows of the CSV file are appended to the table.
load_sample_data ==
    \E n \in 0..(MaxStore - Len(store)) :
        \E csv \in [1..n -> Rows] :
            /\ store' = store \o csv
            /\ out' = [op |-> "load_sample_data"]

call_analyze_performance ==
    \E start_date \in QueryDays, end_date \in QueryDays :
        /\ out' = [op |-> "analyze_performance",
                   start_date |-> start_date, end_date |-> end_date,
                   result |-> analyze_performance(store, start_date, end_date)]
        /\ UNCHANGED store

call_generate_daily_report ==
    \E date \in QueryDays :
        /\ out' = [op |-> "generate_daily_report", date |-> date,
                   result |-> generate_daily_report(store, date)]
        /\ UNCHANGED store

call_validate_transaction ==
    \E transaction \in Transactions :
        /\ out' = [op |-> "validate_transaction", transaction |-> transaction,
                   result |-> validate_transaction(transaction)]
        /\ UNCHANGED store

call_generate_action_items ==
    \E metrics \in MetricsValues :
        /\ out' = [op |-> "generate_action_items", metrics |-> metrics,
                   result |-> generate_action_items(metrics)]
        /\ UNCHANGED store

\* The store and the calls that read it.
Next ==
    \/ load_sample_data
    \/ call_analyze_performance
    \/ call_generate_daily_report

Spec == Init /\ [][Next]_vars

\* The two functions that read no store, applied to every input.
NextPure ==
    \/ call_validate_transaction
    \/ call_generate_action_items

SpecPure == Init /\ [][NextPure]_vars

(***************************************************************************)
(* Properties of validate_transaction (SpecPure).                          *)
(***************************************************************************)
Validated == out.op = "validate_transaction"

Contains(seq, x) == \E i \in DOMAIN seq : seq[i] = x

IsNumber(x) == x.kind = "num"

\* C1: a transaction with processing_time > 4.0 gets a result that lists
\* SLA_BREACH and is not valid, whatever its other four fields hold, a
\* missing one included.
C1_SlaBreachAlwaysReported ==
    (Validated /\ IsNumber(out.transaction.processing_time)
        /\ out.transaction.processing_time.n > 40)
    => /\ ~out.result.raised
       /\ Contains(out.result.error_codes, "SLA_BREACH")
       /\ ~out.result.is_valid

\* The list C2 describes: the MISSING codes in field order, then
\* INVALID_AMOUNT for a present amount <= 0, then INVALID_CURRENCY for a
\* currency whose text is not 3 characters long, then SLA_BREACH.
ClaimedCodes(t) ==
    (IF pd_isna(t.merchant_id) THEN <<"MISSING_MERCHANT_ID">> ELSE <<>>)
    \o (IF pd_isna(t.amount) THEN <<"MISSING_AMOUNT">> ELSE <<>>)
    \o (IF pd_isna(t.currency) THEN <<"MISSING_CURRENCY">> ELSE <<>>)
    \o (IF pd_isna(t.card_type) THEN <<"MISSING_CARD_TYPE">> ELSE <<>>)
    \o (IF IsNumber(t.amount) /\ t.amount.n <= 0
          THEN <<"INVALID_AMOUNT">> ELSE <<>>)
    \o (IF Len(py_str(t.currency)) # 3 THEN <<"INVALID_CURRENCY">> ELSE <<>>)
    \o (IF IsNumber(t.processing_time) /\ t.processing_time.n > 40
          THEN <<"SLA_BREACH">> ELSE <<>>)

\* C2: for every transaction the returned list is exactly the claimed
\* concatenation, and is_valid is true exactly when the list is empty.
C2_ExactErrorCodes ==
    Validated
    => /\ ~out.result.raised
       /\ out.result.error_codes = ClaimedCodes(out.transaction)
       /\ out.result.is_valid = (out.result.error_codes = <<>>)

\* C3: a transaction whose amount is missing/null gets a result, not an
\* exception, and the result lists MISSING_AMOUNT and not INVALID_AMOUNT.
C3_NullAmountHandled ==
    (Validated /\ pd_isna(out.transaction.amount))
    => /\ ~out.result.raised
       /\ Contains(out.result.error_codes, "MISSING_AMOUNT")
       /\ ~Contains(out.result.error_codes, "INVALID_AMOUNT")

\* C4: validate_transaction never raises; a non-numeric amount is reported
\* by its missing/invalid code in the returned list.
C4_NeverRaises ==
    Validated
    => /\ ~out.result.raised
       /\ out.transaction.amount.kind = "str"
            => \/ Contains(out.result.error_codes, "INVALID_AMOUNT")
               \/ Contains(out.result.error_codes, "MISSING_AMOUNT")

(***************************************************************************)
(* Properties of the aggregation (Spec).                                   *)
(***************************************************************************)
Analyzed == out.op = "analyze_performance"

\* The positions of the stored rows that fall on calendar date d.
RowsOn(d) ==
    {i \in DOMAIN store :
        store[i].timestamp # NULL /\ store[i].timestamp.day = d}

\* C5: analyze_performance returns one entry for each date of the range
\* (both ends included, time of day ignored) that has a stored transaction,
\* none for any other date, in strictly ascending date order.
C5_OneEntryPerDateInRange ==
    Analyzed
    => LET res == out.result
       IN  /\ {res[i].date : i \in DOMAIN res}
                = {d \in Days \cup QueryDays :
                      /\ out.start_date <= d
                      /\ d <= out.end_date
                      /\ RowsOn(d) # {}}
           /\ \A i \in DOMAIN res : \A j \in DOMAIN res :
                  i < j => res[i].date < res[j].date

\* Reached: rows loaded for day 2 (late in the day) and then day 1, and a
\* query over days 1..2 answered with two entries.
W_C5 ==
    /\ Analyzed
    /\ Len(out.result) = 2
    /\ out.end_date = 2
    /\ Len(store) = 2
    /\ store[1].timestamp = DateTime(2, 86399)
    /\ store[2].timestamp # NULL
    /\ store[2].timestamp.day = 1

\* C6: in every entry total_transactions is the number of stored
\* transactions of the date, error_rate is 100 * (those with a non-null
\* error_code) / total_transactions, and sla_breaches is the number of
\* those with processing_time > 4.0.
C6_EntryValues ==
    Analyzed
    => \A i \in DOMAIN out.result :
          LET e == out.result[i]
              on == RowsOn(e.date)
              errors == {k \in on : store[k].error_code # NULL}
              slow == {k \in on : store[k].processing_time > 40}
          IN  /\ e.total_transactions = Cardinality(on)
              /\ e.error_rate.den > 0
              /\ e.error_rate.num * e.total_transactions
                    = 100 * Cardinality(errors) * e.error_rate.den
              /\ e.sla_breaches = Cardinality(slow)

\* Reached: a day with two transactions, one with an error code, one of
\* exactly 4.0 s and one above: error rate 50, one breach.
W_C6 ==
    /\ Analyzed
    /\ \E i \in DOMAIN out.result :
          /\ out.result[i].total_transactions = 2
          /\ out.result[i].error_rate.num = 50 * out.result[i].error_rate.den
          /\ out.result[i].sla_breaches = 1
          /\ \E k \in RowsOn(out.result[i].date) : store[k].processing_time = 40

\* C7: every entry has total_transactions >= 1, 0 <= error_rate <= 100 and
\* 0 <= sla_breaches <= total_transactions.
C7_EntryRanges ==
    Analyzed
    => \A i \in DOMAIN out.result :
          LET e == out.result[i]
          IN  /\ e.total_transactions >= 1
              /\ e.error_rate.den > 0
              /\ 0 <= e.error_rate.num
              /\ e.error_rate.num <= 100 * e.error_rate.den
              /\ 0 <= e.sla_breaches
              /\ e.sla_breaches <= e.total_transactions

\* Reached: an entry at both upper limits: every transaction of the day has
\* an error code and every one is a breach.
W_C7 ==
    /\ Analyzed
    /\ \E i \in DOMAIN out.result :
          /\ out.result[i].total_transactions = 2
          /\ out.result[i].error_rate.num = 100 * out.result[i].error_rate.den
          /\ out.result[i].sla_breaches = 2

(***************************************************************************)
(* Properties of the action items and of the report.                       *)
(***************************************************************************)
\* The items C8 describes for a metrics value.
ClaimedItems(m) ==
    (IF m.avg_response_time.num > 40 * m.avg_response_time.den
        THEN <<URGENT>> ELSE <<>>)
    \o (IF m.error_rate.num > m.error_rate.den THEN <<ANALYZE>> ELSE <<>>)
    \o (IF m.sla_breaches > 0 THEN <<REVIEW(m.sla_breaches)>> ELSE <<>>)

\* C8: generate_action_items emits, in this order, the urgent item iff
\* avg_response_time > 4, the error-pattern item iff error_rate > 1, the
\* breach-count item with the exact count iff sla_breaches > 0, and the
\* single "no action" item iff none of the three applies.
C8_ActionItems ==
    out.op = "generate_action_items"
    => IF ClaimedItems(out.metrics) = <<>>
         THEN out.result = <<NO_ACTIONS>>
         ELSE out.result = ClaimedItems(out.metrics)

\* Reached: the day of average 1.8 s, error rate 2.0 and 3 breaches gets
\* the error-pattern and the breach-count item and not the urgent one.
W_C8 ==
    /\ out.op = "generate_action_items"
    /\ out.metrics.avg_response_time = [num |-> 18, den |-> 1]
    /\ out.metrics.error_rate = [num |-> 200, den |-> 100]
    /\ out.metrics.sla_breaches = 3
    /\ out.result = <<ANALYZE, REVIEW(3)>>

Reported == out.op = "generate_daily_report"

IsReview(item) == item.item = REVIEW(0).item

\* C10: in every entry avg_response_time > 4 implies sla_breaches >= 1, and
\* a report that carries the urgent item carries the breach-count item.
C10_UrgentImpliesBreach ==
    /\ Analyzed
        => \A i \in DOMAIN out.result :
              FracGt(out.result[i].avg_response_time, 40)
                  => out.result[i].sla_breaches >= 1
    /\ (Reported /\ out.result.text # NO_DATA)
        => (Contains(out.result.action_items, URGENT)
              => \E i \in DOMAIN out.result.action_items :
                    IsReview(out.result.action_items[i]))

\* Reached: a day of 4.0 s and 4.1 s, average above 4, reported with the
\* urgent item and the breach-count item for one transaction.
W_C10 ==
    /\ Reported
    /\ out.result.text # NO_DATA
    /\ out.result.total_transactions = 2
    /\ \E k \in RowsOn(out.date) : store[k].processing_time = 40
    /\ out.result.action_items[1] = URGENT
    /\ Contains(out.result.action_items, REVIEW(1))

\* The converse of the second half, which the code does not satisfy: TLC
\* finds a reported day with a breach whose response-time SLA line reads
\* "Met" (rows of 1.0 s and 4.1 s on one day).
ConverseOfC10 ==
    (Reported /\ out.result.text # NO_DATA /\ out.result.sla_breaches > 0)
    => out.result.response_time_sla = "Not Met"

====
